---- MODULE Spec2Model ----
(***************************************************************************)
(* Billing PDF API (src/index.js): the job registry, the POST /extract     *)
(* handler with its background task (decode, row filter, oracle call,      *)
(* validate, terminal write, eviction timer) and GET /status/:jobId.       *)
(*                                                                         *)
(* Text is a sequence of one-character strings, so that toUpperCase,       *)
(* includes, endsWith and the regular expressions of the row filter are    *)
(* computed on characters as the code computes them.                       *)
(***************************************************************************)
EXTENDS Integers, Sequences, FiniteSets, TLC

VARIABLES
    jobs,        \* the Map `jobs`: jobId -> {status, data, error}
    nextId,      \* number of job ids allocated so far (uuidv4 is fresh each time)
    task,        \* per job id: position of the setImmediate callback
    doc,         \* per job id: allTextLines, once the decoder has delivered
    sent,        \* per job id: filteredLines, once handed to the oracle
    reply,       \* per job id: what the oracle call delivered
    timer,       \* per job id: remaining ms of the setTimeout eviction timer
    age,         \* per job id: ms since the job was created (saturates)
    since,       \* per job id: ms since its terminal jobs.set (saturates)
    writes,      \* per job id: number of terminal jobs.set calls so far
    req,         \* the last request received
    resp         \* the last HTTP response sent

vars == <<jobs, nextId, task, doc, sent, reply, timer, age, since, writes, req, resp>>

-----------------------------------------------------------------------------
(* Bounds of the model *)

MaxJobs == 2
MaxLines == 3
MaxRows == 2
TickMs == 900000

(* Program constants *)

RetentionMs == 1800000

JobIds == 0 .. (MaxJobs - 1)

-----------------------------------------------------------------------------
(* Characters and text *)

LowerCase == <<"a","b","c","d","e","f","g","h","i","j","k","l","m",
               "n","o","p","q","r","s","t","u","v","w","x","y","z">>
UpperCase == <<"A","B","C","D","E","F","G","H","I","J","K","L","M",
               "N","O","P","Q","R","S","T","U","V","W","X","Y","Z">>
Digits == {"0","1","2","3","4","5","6","7","8","9"}

Range(s) == {s[i] : i \in DOMAIN s}

IsDigit(c) == c \in Digits
IsUpper(c) == c \in Range(UpperCase)
IsSpace(c) == c = " "

ToUpperChar(c) ==
    IF c \in Range(LowerCase)
    THEN UpperCase[CHOOSE i \in DOMAIN LowerCase : LowerCase[i] = c]
    ELSE c

\* String.prototype.toUpperCase
ToUpperCase(s) == [i \in DOMAIN s |-> ToUpperChar(s[i])]

\* String.prototype.includes
Includes(s, sub) ==
    \E i \in 0 .. (Len(s) - Len(sub)) : SubSeq(s, i + 1, i + Len(sub)) = sub

\* String.prototype.endsWith
EndsWith(s, suffix) ==
    /\ Len(s) >= Len(suffix)
    /\ SubSeq(s, Len(s) - Len(suffix) + 1, Len(s)) = suffix

\* String.prototype.trim
RECURSIVE TrimLeft(_)
TrimLeft(s) == IF s # <<>> /\ IsSpace(Head(s)) THEN TrimLeft(Tail(s)) ELSE s

RECURSIVE TrimRight(_)
TrimRight(s) ==
    IF s # <<>> /\ IsSpace(s[Len(s)]) THEN TrimRight(SubSeq(s, 1, Len(s) - 1)) ELSE s

Trim(s) == TrimRight(TrimLeft(s))

\* Array.prototype.join(' ')
RECURSIVE JoinSpace(_)
JoinSpace(parts) ==
    IF parts = <<>> THEN <<>>
    ELSE IF Len(parts) = 1 THEN parts[1]
    ELSE parts[1] \o <<" ">> \o JoinSpace(Tail(parts))

\* /^\d+$/
AllDigits(line) == Len(line) > 0 /\ \A i \in DOMAIN line : IsDigit(line[i])

\* /^\d+\s/
DigitsThenSpace(line) ==
    \E k \in 1 .. (Len(line) - 1) :
        /\ \A i \in 1 .. k : IsDigit(line[i])
        /\ IsSpace(line[k + 1])

\* /\d{2}\/\d{2}/
HasDatePattern(line) ==
    \E i \in 1 .. (Len(line) - 4) :
        /\ IsDigit(line[i]) /\ IsDigit(line[i + 1])
        /\ line[i + 2] = "/"
        /\ IsDigit(line[i + 3]) /\ IsDigit(line[i + 4])

\* /[A-Z0-9]{5,}/
HasIdRun(line) ==
    \E i \in 1 .. (Len(line) - 4) :
        \A j \in i .. (i + 4) : IsUpper(line[j]) \/ IsDigit(line[j])

-----------------------------------------------------------------------------
(* Row filter *)

stopMarkers == <<
    <<"A","P","'","S"," ","O","V","E","R","D","U","E">>,
    <<"A","P","'","S"," ","D","U","E">>,
    <<"O","V","E","R","D","U","E"," ","A","P">>,
    <<"D","U","E"," ","C","M">>,
    <<"S","E","P","T","E","M","B","E","R">>,
    <<"A","L","L"," ","I","N","T","A","K","E">>,
    <<"N","E","E","D","S"," ","H","0","0","4","4">>,
    <<"C","M">> >>

\* stopMarkers.some(marker => upperLine.includes(marker))
IsStopLine(line) ==
    \E m \in DOMAIN stopMarkers : Includes(ToUpperCase(line), stopMarkers[m])

\* the test of the headerCandidates filter
IsHeaderLine(line) ==
    \/ Includes(ToUpperCase(line), <<"N","A","M","E">>)
    \/ Includes(ToUpperCase(line), <<"T","1","0","2","3">>)
    \/ Includes(ToUpperCase(line), <<"H","0","0","4","4">>)

\* the "Start if seems data" test
SeemsData(line) ==
    \/ Includes(line, <<",">>)
    \/ HasDatePattern(line)
    \/ HasIdRun(line)

\* if (currentRow.length) filteredLines.push(currentRow.join(' ').trim())
\* An entry of filteredLines is kept as the sequence of the positions (in
\* allTextLines) of the lines joined into it; LineText gives its text.
Flush(filtered, currentRow) ==
    IF currentRow # <<>> THEN Append(filtered, currentRow) ELSE filtered

\* as FilterPass, without the stop markers
RECURSIVE FilterPassNoStop(_, _, _, _)
FilterPassNoStop(lines, i, filtered, currentRow) ==
    IF i > Len(lines) THEN Flush(filtered, currentRow)
    ELSE IF AllDigits(lines[i]) \/ (currentRow = <<>> /\ DigitsThenSpace(lines[i]))
         THEN FilterPassNoStop(lines, i + 1, Flush(filtered, currentRow), <<i>>)
    ELSE IF currentRow # <<>>
         THEN FilterPassNoStop(lines, i + 1, filtered, Append(currentRow, i))
    ELSE IF SeemsData(lines[i])
         THEN FilterPassNoStop(lines, i + 1, filtered, <<i>>)
    ELSE FilterPassNoStop(lines, i + 1, filtered, currentRow)

\* The for loop over allTextLines, from position i on, and the flush after it.
RECURSIVE FilterPass(_, _, _, _)
FilterPass(lines, i, filtered, currentRow) ==
    IF i > Len(lines) THEN Flush(filtered, currentRow)
    ELSE IF IsStopLine(lines[i])
         \* flush, break; the statement after the loop then flushes again
         THEN Flush(Flush(filtered, currentRow), currentRow)
    ELSE IF AllDigits(lines[i]) \/ (currentRow = <<>> /\ DigitsThenSpace(lines[i]))
         THEN FilterPass(lines, i + 1, Flush(filtered, currentRow), <<i>>)
    ELSE IF currentRow # <<>>
         THEN FilterPass(lines, i + 1, filtered, Append(currentRow, i))
    ELSE IF SeemsData(lines[i])
         THEN FilterPass(lines, i + 1, filtered, <<i>>)
    ELSE FilterPass(lines, i + 1, filtered, currentRow)

\* allTextLines.filter(line => ... 'NAME' ... 'T1023' ... 'H0044'), from
\* position i on; each candidate is kept as the position of its line
RECURSIVE HeadersFrom(_, _)
HeadersFrom(lines, i) ==
    IF i > Len(lines) THEN <<>>
    ELSE (IF IsHeaderLine(lines[i]) THEN << <<i>> >> ELSE <<>>) \o HeadersFrom(lines, i + 1)

headerCandidates(lines) == HeadersFrom(lines, 1)

\* as WithHeaders, with the header lines put behind the rows
WithHeadersLast(lines) ==
    LET headers == headerCandidates(lines)
    IN  IF headers # <<>>
        THEN FilterPass(lines, 1, <<>>, <<>>) \o headers
        ELSE FilterPass(lines, 1, <<>>, <<>>)

\* filteredLines after the header step
WithHeaders(lines) ==
    LET headers == headerCandidates(lines)
    IN  IF headers # <<>>
        THEN headers \o FilterPass(lines, 1, <<>>, <<>>)
        ELSE FilterPass(lines, 1, <<>>, <<>>)

\* as filteredGroups, without the fallback to allTextLines
filteredGroupsNoFallback(lines) == WithHeaders(lines)

\* filteredLines as handed to the prompt: positions
filteredGroups(lines) ==
    LET selected == WithHeaders(lines)
    IN  IF selected = <<>>
        THEN [i \in DOMAIN lines |-> <<i>>]
        ELSE selected

LineText(lines, group) == Trim(JoinSpace([k \in DOMAIN group |-> lines[group[k]]]))

\* filteredLines as handed to the prompt: text
filteredLines(lines) ==
    LET groups == filteredGroups(lines)
    IN  [g \in DOMAIN groups |-> LineText(lines, groups[g])]

-----------------------------------------------------------------------------
(* JSON values and the UnifiedRow schema *)

\* A JavaScript value of a field, an error message or a response member is a
\* pair <<type, text>>.
Absent == <<"absent", "">>          \* the key is not there
Undefined == <<"undefined", "">>
JNull == <<"null", "">>
JStr(s) == <<"string", s>>
JNum(s) == <<"number", s>>
JBool(s) == <<"boolean", s>>

\* the keys of UnifiedRowSchema
SchemaKeys == {"Name", "MemberID", "T1023AuthId", "T1023Range", "T1023BillDate",
               "H0044AuthId", "H0044Range", "H0044BillDate", "Paid"}

\* a key the schema does not have
OtherKeys == {"DOB"}

Keys == SchemaKeys \cup OtherKeys

\* An element of the oracle's rows array: t is its JSON type, and f gives, for
\* an object, the value of every key (Absent for a key it does not have).
EmptyFields == [k \in Keys |-> Absent]
EmptyRow == [t |-> "object", f |-> EmptyFields]

\* z.string().nullable().optional()
FieldOk(v) == v[1] \in {"string", "null", "absent", "undefined"}

\* as SafeParse, with every schema field given the default null
SafeParseNullDefault(row) ==
    IF row.t = "object" /\ \A k \in SchemaKeys : FieldOk(row.f[k])
    THEN [success |-> TRUE,
          data |-> [t |-> "object",
                    f |-> [k \in Keys |-> IF k \notin SchemaKeys THEN Absent
                                          ELSE IF row.f[k] = Absent THEN JNull
                                          ELSE row.f[k]]]]
    ELSE [success |-> FALSE, data |-> EmptyRow]

\* UnifiedRowSchema.safeParse(row): z.object strips the keys it does not know
\* and leaves a key the row does not have out of the result.
SafeParse(row) ==
    IF row.t = "object" /\ \A k \in SchemaKeys : FieldOk(row.f[k])
    THEN [success |-> TRUE,
          data |-> [t |-> "object",
                    f |-> [k \in Keys |-> IF k \in SchemaKeys THEN row.f[k] ELSE Absent]]]
    ELSE [success |-> FALSE, data |-> EmptyRow]

\* as NormalizeRow, with the row itself kept when it fails validation
NormalizeRowKeepInvalid(row) == IF SafeParse(row).success THEN SafeParse(row).data ELSE row

\* parsed.success ? parsed.data : {}
NormalizeRow(row) == IF SafeParse(row).success THEN SafeParse(row).data ELSE EmptyRow

\* JavaScript truthiness of a field value
Truthy(v) ==
    \/ v[1] = "string" /\ v[2] # ""
    \/ v[1] = "number" /\ v[2] # "0"
    \/ v[1] = "boolean" /\ v[2] = "true"
    \/ v[1] \in {"object", "array"}

\* row => Object.values(row).some(val => val)
KeepRow(row) == \E k \in Keys : Truthy(row.f[k])

RECURSIVE FilterRows(_)
FilterRows(rows) ==
    IF rows = <<>> THEN <<>>
    ELSE (IF KeepRow(Head(rows)) THEN <<Head(rows)>> ELSE <<>>) \o FilterRows(Tail(rows))

\* rows.map(row => ...).filter(row => ...)
Normalized(rows) == FilterRows([i \in DOMAIN rows |-> NormalizeRow(rows[i])])

-----------------------------------------------------------------------------
(* The oracle's reply *)

\* completion.choices[0].message.content, by what JSON.parse makes of it:
\* ok: it parses; top: the JSON type of the parsed value; rowsT: the type of
\* its member rows ("absent" when it has none); elems: the elements of rows
\* when rows is an array.
Content(ok, top, rowsT, elems) == [ok |-> ok, top |-> top, rowsT |-> rowsT, elems |-> elems]

InvalidStructureMsg == "Invalid structure: missing \"rows\" array"
SyntaxErrorMsg == "Unexpected token in JSON"
NullRowsMsg == "Cannot read properties of null (reading 'rows')"
NoTextMsg == "No text extracted from PDF"

\* data.rows: undefined for a value that is no object or has no such member
RowsMember(content) == IF content.top = "object" THEN content.rowsT ELSE "absent"

FalsyTypes == {"absent", "null", "false", "zero", "emptystring"}

\* as ParseReply, with rows = data.rows || [] for the check of data.rows
ParseReplyRowsOrEmpty(content) ==
    IF ~content.ok
    THEN [threw |-> TRUE, message |-> SyntaxErrorMsg, rows |-> <<>>]
    ELSE IF content.top = "null"
    THEN [threw |-> TRUE, message |-> NullRowsMsg, rows |-> <<>>]
    ELSE IF RowsMember(content) \in FalsyTypes
    THEN [threw |-> FALSE, message |-> "", rows |-> <<>>]
    ELSE IF RowsMember(content) # "array"
    THEN [threw |-> TRUE, message |-> "rows.map is not a function", rows |-> <<>>]
    ELSE [threw |-> FALSE, message |-> "", rows |-> content.elems]

\* JSON.parse(content) and the check of data.rows: what is thrown, or the rows
ParseReply(content) ==
    IF ~content.ok
    THEN [threw |-> TRUE, message |-> SyntaxErrorMsg, rows |-> <<>>]
    ELSE IF content.top = "null"
    THEN [threw |-> TRUE, message |-> NullRowsMsg, rows |-> <<>>]
    ELSE IF RowsMember(content) \in FalsyTypes \/ RowsMember(content) # "array"
    THEN [threw |-> TRUE, message |-> InvalidStructureMsg, rows |-> <<>>]
    ELSE [threw |-> FALSE, message |-> "", rows |-> content.elems]

-----------------------------------------------------------------------------
(* The job registry *)

\* A value of the Map: data is <<>> and error is Absent where the object has
\* no such member.
PendingJob == [status |-> "pending", data |-> <<>>, error |-> Absent]
CompletedJob(rows) == [status |-> "completed", data |-> rows, error |-> Absent]
ErrorJob(message) == [status |-> "error", data |-> <<>>, error |-> message]

\* jobs.set(jobId, value)
MapSet(map, id, value) == [k \in (DOMAIN map) \cup {id} |-> IF k = id THEN value ELSE map[k]]

\* jobs.delete(jobId)
MapDelete(map, id) == [k \in (DOMAIN map) \ {id} |-> map[k]]

Min(a, b) == IF a < b THEN a ELSE b
Max(a, b) == IF a > b THEN a ELSE b

-----------------------------------------------------------------------------
(* Requests and responses *)

NoJob == MaxJobs        \* stands for "no job id" in a request or a response

NoRequest == [op |-> "none", file |-> FALSE, mimetype |-> <<>>, jobId |-> NoJob]
ExtractRequest(file, mimetype) ==
    [op |-> "extract", file |-> file, mimetype |-> mimetype, jobId |-> NoJob]
StatusRequest(id) == [op |-> "status", file |-> FALSE, mimetype |-> <<>>, jobId |-> id]

\* A response: its HTTP code and the members status, jobId, data and error of
\* its JSON body (Absent, NoJob, <<>> with hasData FALSE where it has none).
Response(code, status, jobId, hasData, data, error) ==
    [code |-> code, status |-> status, jobId |-> jobId,
     hasData |-> hasData, data |-> data, error |-> error]

NoResponse == Response(0, Absent, NoJob, FALSE, <<>>, Absent)

\* res.status(400).json({ status: false, data: [], error: 'Please upload a PDF' })
BadRequest == Response(400, JBool("false"), NoJob, TRUE, <<>>, JStr("Please upload a PDF"))

\* res.json({ status: true, jobId, message: ... })
Accepted(jobId) == Response(200, JBool("true"), jobId, FALSE, <<>>, Absent)

\* as IsPdfUpload, with includes for endsWith
IsPdfUploadIncludes(r) == r.file /\ Includes(r.mimetype, <<"p","d","f">>)

\* !req.file || !req.file.mimetype.endsWith('pdf'), negated
IsPdfUpload(r) == r.file /\ EndsWith(r.mimetype, <<"p","d","f">>)

\* GET /status/:jobId; res.json leaves out a member whose value is undefined
StatusResponse(map, id) ==
    IF id \notin DOMAIN map
    THEN Response(404, Absent, NoJob, FALSE, <<>>, JStr("Job not found"))
    ELSE IF map[id].status = "completed"
    THEN Response(200, JBool("true"), NoJob, TRUE, map[id].data, Absent)
    ELSE IF map[id].status = "error"
    THEN Response(200, JStr("error"), NoJob, FALSE, <<>>,
                  IF map[id].error = Undefined THEN Absent ELSE map[id].error)
    ELSE Response(200, JStr("pending"), NoJob, FALSE, <<>>, Absent)

-----------------------------------------------------------------------------
(* Initial state *)

\* allTextLines of a task: decoded is FALSE until pdfParser_dataReady
NoDoc == [decoded |-> FALSE, lines |-> <<>>]
Decoded(lines) == [decoded |-> TRUE, lines |-> lines]

\* what a task put into its prompt: the text of filteredLines and, for each
\* entry, the positions in allTextLines of the lines it was joined from
NotSent == [called |-> FALSE, from |-> <<>>, lines |-> <<>>]
Sent(lines) == [called |-> TRUE, from |-> filteredGroups(lines), lines |-> filteredLines(lines)]

NoContent == Content(FALSE, "none", "absent", <<>>)
NoReply == [got |-> "none", content |-> NoContent]

Init ==
    /\ jobs = <<>>
    /\ nextId = 0
    /\ task = [id \in JobIds |-> "none"]
    /\ doc = [id \in JobIds |-> NoDoc]
    /\ sent = [id \in JobIds |-> NotSent]
    /\ reply = [id \in JobIds |-> NoReply]
    /\ timer = <<>>
    /\ age = [id \in JobIds |-> 0]
    /\ since = [id \in JobIds |-> 0]
    /\ writes = [id \in JobIds |-> 0]
    /\ req = NoRequest
    /\ resp = NoResponse

-----------------------------------------------------------------------------
(* POST /extract *)

\* as PostExtract, with a job id that is not fresh
PostExtractReusedId(r) ==
    /\ req' = r
    /\ IF ~IsPdfUpload(r)
       THEN /\ resp' = BadRequest
            /\ UNCHANGED <<jobs, nextId, task, doc, sent, reply, timer, age, since, writes>>
       ELSE /\ nextId < MaxJobs
            /\ jobs' = MapSet(jobs, 0, PendingJob)
            /\ task' = [task EXCEPT ![nextId] = "queued"]
            /\ nextId' = nextId + 1
            /\ resp' = Accepted(0)
            /\ UNCHANGED <<doc, sent, reply, timer, age, since, writes>>

\* as PostExtract, with the eviction timer armed when the job is created
PostExtractArmsTimer(r) ==
    /\ req' = r
    /\ IF ~IsPdfUpload(r)
       THEN /\ resp' = BadRequest
            /\ UNCHANGED <<jobs, nextId, task, doc, sent, reply, timer, age, since, writes>>
       ELSE /\ nextId < MaxJobs
            /\ jobs' = MapSet(jobs, nextId, PendingJob)
            /\ timer' = MapSet(timer, nextId, RetentionMs)
            /\ task' = [task EXCEPT ![nextId] = "queued"]
            /\ nextId' = nextId + 1
            /\ resp' = Accepted(nextId)
            /\ UNCHANGED <<doc, sent, reply, age, since, writes>>

PostExtract(r) ==
    /\ req' = r
    /\ IF ~IsPdfUpload(r)
       THEN /\ resp' = BadRequest
            /\ UNCHANGED <<jobs, nextId, task, doc, sent, reply, timer, age, since, writes>>
       ELSE /\ nextId < MaxJobs
            \* jobId = uuidv4(); jobs.set(jobId, { status: 'pending' }); setImmediate(...)
            /\ jobs' = MapSet(jobs, nextId, PendingJob)
            /\ task' = [task EXCEPT ![nextId] = "queued"]
            /\ nextId' = nextId + 1
            /\ resp' = Accepted(nextId)
            /\ UNCHANGED <<doc, sent, reply, timer, age, since, writes>>

-----------------------------------------------------------------------------
(* The background task of a job *)

\* as Catch, with jobId a variable shared by all requests: the id allocated last
CatchSharedJobId(map, id, message) == MapSet(map, nextId - 1, ErrorJob(message))

\* catch (e) { jobs.set(jobId, { status: 'error', error: e.message }) }
Catch(map, id, message) == MapSet(map, id, ErrorJob(message))

\* jobs.set(jobId, { status: 'completed', data: normalized })
Complete(map, id, rows) == MapSet(map, id, CompletedJob(Normalized(rows)))

\* as Finally, with the delay given in seconds
FinallySeconds(timers, id) == MapSet(timers, id, 30 * 60)

\* finally { setTimeout(() => jobs.delete(jobId), 30 * 60 * 1000) }
Finally(timers, id) == MapSet(timers, id, RetentionMs)

\* The end of the task: the terminal jobs.set, then the finally block.
Settle(id, map) ==
    /\ jobs' = map
    /\ writes' = [writes EXCEPT ![id] = @ + 1]
    /\ timer' = Finally(timer, id)
    /\ task' = [task EXCEPT ![id] = "done"]

\* the setImmediate callback starts: parseBuffer, then await
TaskStart(id) ==
    /\ task[id] = "queued"
    /\ task' = [task EXCEPT ![id] = "decoding"]
    /\ UNCHANGED <<jobs, nextId, doc, sent, reply, timer, age, since, writes, req, resp>>

\* as DecoderResolve, without the check of allTextLines.length
DecoderResolveUnchecked(id, docs) ==
    /\ task[id] = "decoding"
    /\ \E lines \in docs :
        /\ doc' = [doc EXCEPT ![id] = Decoded(lines)]
        /\ sent' = [sent EXCEPT ![id] = Sent(lines)]
        /\ task' = [task EXCEPT ![id] = "oracle"]
        /\ UNCHANGED <<jobs, timer, writes>>
    /\ UNCHANGED <<nextId, reply, age, since, req, resp>>

\* pdfParser_dataReady with a document whose text lines are one of docs:
\* allTextLines is computed, checked and filtered, and the oracle is called
\* (await)
DecoderResolve(id, docs) ==
    /\ task[id] = "decoding"
    /\ \E lines \in docs :
        /\ doc' = [doc EXCEPT ![id] = Decoded(lines)]
        /\ IF lines = <<>>
           THEN /\ Settle(id, Catch(jobs, id, JStr(NoTextMsg)))
                /\ UNCHANGED sent
           ELSE /\ sent' = [sent EXCEPT ![id] = Sent(lines)]
                /\ task' = [task EXCEPT ![id] = "oracle"]
                /\ UNCHANGED <<jobs, timer, writes>>
    /\ UNCHANGED <<nextId, reply, age, since, req, resp>>

\* pdfParser_dataError: reject(errData)
DecoderReject(id, message) ==
    /\ task[id] = "decoding"
    /\ Settle(id, Catch(jobs, id, message))
    /\ UNCHANGED <<nextId, doc, sent, reply, age, since, req, resp>>

\* openai.chat.completions.create resolves with one of contents
OracleResolve(id, contents) ==
    /\ task[id] = "oracle"
    /\ \E content \in contents :
        /\ reply' = [reply EXCEPT ![id] = [got |-> "content", content |-> content]]
        /\ IF ParseReply(content).threw
           THEN Settle(id, Catch(jobs, id, JStr(ParseReply(content).message)))
           ELSE Settle(id, Complete(jobs, id, ParseReply(content).rows))
    /\ UNCHANGED <<nextId, doc, sent, age, since, req, resp>>

\* openai.chat.completions.create rejects
OracleReject(id, message) ==
    /\ task[id] = "oracle"
    /\ reply' = [reply EXCEPT ![id] = [got |-> "rejected", content |-> NoContent]]
    /\ Settle(id, Catch(jobs, id, message))
    /\ UNCHANGED <<nextId, doc, sent, age, since, req, resp>>

-----------------------------------------------------------------------------
(* Time, the eviction timer and GET /status *)

\* TickMs of time pass
Tick ==
    /\ age' = [id \in JobIds |->
                 IF id < nextId THEN Min(age[id] + TickMs, RetentionMs) ELSE age[id]]
    /\ since' = [id \in JobIds |->
                   IF writes[id] > 0 THEN Min(since[id] + TickMs, RetentionMs) ELSE since[id]]
    /\ timer' = [id \in DOMAIN timer |-> Max(timer[id] - TickMs, 0)]
    /\ UNCHANGED <<jobs, nextId, task, doc, sent, reply, writes, req, resp>>

\* the setTimeout callback: () => jobs.delete(jobId)
EvictionTimerFire(id) ==
    /\ id \in DOMAIN timer
    /\ timer[id] = 0
    /\ jobs' = MapDelete(jobs, id)
    /\ timer' = MapDelete(timer, id)
    /\ UNCHANGED <<nextId, task, doc, sent, reply, age, since, writes, req, resp>>

GetStatus(id) ==
    /\ req' = StatusRequest(id)
    /\ resp' = StatusResponse(jobs, id)
    /\ UNCHANGED <<jobs, nextId, task, doc, sent, reply, timer, age, since, writes>>

-----------------------------------------------------------------------------
(* Inputs *)

SeqsUpTo(S, n) == UNION {[1 .. k -> S] : k \in 0 .. n}

\* media types a client may declare
PdfType == <<"a","p","p","l","i","c","a","t","i","o","n","/","p","d","f">>
XPdfType == <<"a","p","p","l","i","c","a","t","i","o","n","/","x","-","p","d","f">>
TextType == <<"t","e","x","t","/","p","l","a","i","n">>
PdfXmlType == <<"a","p","p","l","i","c","a","t","i","o","n","/","p","d","f","+","x","m","l">>

MediaTypes == {PdfType, XPdfType, TextType, PdfXmlType}

Uploads == {ExtractRequest(FALSE, <<>>)} \cup {ExtractRequest(TRUE, m) : m \in MediaTypes}

\* lines of a decoded document
LineName == <<"N","A","M","E">>
LineIndex == <<"1">>
LineRow == <<"1"," ","A",",","B">>
LineComma == <<"A",",","b">>
LineDate == <<"1","2","/","3","4">>
LineCode == <<"T","1","0","2","3">>
LinePlain == <<"x">>
LineStop == <<"c","m">>
LineNeeds == <<"N","e","e","d","s"," ","H","0","0","4","4">>

LinePool == {LineName, LineIndex, LineRow, LineComma, LineDate, LineCode,
             LinePlain, LineStop, LineNeeds}

AllDocs == SeqsUpTo(LinePool, MaxLines)

SampleDoc == <<LineName, LineRow>>

LifecycleDocs == {<<>>, SampleDoc}

\* rows of the oracle
Row(name, memberId, dob) ==
    [t |-> "object",
     f |-> [k \in Keys |-> IF k = "Name" THEN name
                           ELSE IF k = "MemberID" THEN memberId
                           ELSE IF k = "DOB" THEN dob
                           ELSE Absent]]

NumberRow == [t |-> "number", f |-> EmptyFields]

RowPool ==
    {Row(n, m, d) : n \in {Absent, JNull, JStr(""), JStr("Doe, Jane")},
                    m \in {Absent, JNull, JStr("9898293"), JNum("123")},
                    d \in {Absent, JStr("11/10/1980")}}
    \cup {NumberRow}

GoodRow == Row(JStr("Doe, Jane"), JStr("9898293"), Absent)

Unparseable == Content(FALSE, "none", "absent", <<>>)

BadShapes ==
    {Unparseable}
    \cup {Content(TRUE, top, "absent", <<>>) : top \in {"null", "number", "string", "array"}}
    \cup {Content(TRUE, "object", t, <<>>) :
            t \in {"absent", "null", "false", "zero", "emptystring",
                   "number", "string", "object"}}

RowsContent(rows) == Content(TRUE, "object", "array", rows)

AllContents == BadShapes \cup {RowsContent(rows) : rows \in SeqsUpTo(RowPool, MaxRows)}

LifecycleContents == {Unparseable, RowsContent(<<GoodRow>>)}

\* e.message of what the decoder or the oracle client rejects with
DecoderErrors == {Undefined, JStr("Invalid PDF structure")}
OracleErrors == {JStr("Connection error.")}

-----------------------------------------------------------------------------
(* Specifications *)

TaskStep(docs, contents) ==
    \E id \in JobIds :
        \/ TaskStart(id)
        \/ DecoderResolve(id, docs)
        \/ \E message \in DecoderErrors : DecoderReject(id, message)
        \/ OracleResolve(id, contents)
        \/ \E message \in OracleErrors : OracleReject(id, message)

Next ==
    \/ \E r \in Uploads : PostExtract(r)
    \/ TaskStep(LifecycleDocs, LifecycleContents)
    \/ Tick
    \/ \E id \in JobIds : EvictionTimerFire(id)
    \/ \E id \in JobIds : GetStatus(id)

\* The server with up to MaxJobs uploads, their tasks, timers and polls.
Spec == Init /\ [][Next]_vars

\* The same, with the scheduling of the event loop: a queued callback runs, a
\* timer that is due fires, and time passes.  Nothing makes the decoder or
\* the oracle client settle their promises.
Fairness ==
    /\ WF_vars(Tick)
    /\ \A id \in JobIds : WF_vars(TaskStart(id))
    /\ \A id \in JobIds : WF_vars(EvictionTimerFire(id))

LiveSpec == Init /\ [][Next]_vars /\ Fairness

\* The state right after one PDF upload was accepted.
InitOne ==
    /\ jobs = MapSet(<<>>, 0, PendingJob)
    /\ nextId = 1
    /\ task = [id \in JobIds |-> IF id = 0 THEN "queued" ELSE "none"]
    /\ doc = [id \in JobIds |-> NoDoc]
    /\ sent = [id \in JobIds |-> NotSent]
    /\ reply = [id \in JobIds |-> NoReply]
    /\ timer = <<>>
    /\ age = [id \in JobIds |-> 0]
    /\ since = [id \in JobIds |-> 0]
    /\ writes = [id \in JobIds |-> 0]
    /\ req = ExtractRequest(TRUE, PdfType)
    /\ resp = Accepted(0)

\* One job's task over every document of up to MaxLines lines.
NextFilter == TaskStep(AllDocs, {RowsContent(<<GoodRow>>)})
FilterSpec == InitOne /\ [][NextFilter]_vars

\* One job's task over every reply of up to MaxRows rows.
NextNorm == TaskStep({SampleDoc}, AllContents)
NormSpec == InitOne /\ [][NextNorm]_vars

-----------------------------------------------------------------------------
(* Properties *)

Created(id) == id < nextId
Registered(id) == id \in DOMAIN jobs
Terminal(job) == job.status \in {"completed", "error"}

\* C1: once the registry entry of a job id is completed or in error, no step
\* changes its status, data or error (the entry stays as it is until it is
\* evicted, and an evicted id is never registered again), and the terminal
\* state of a job is written at most once.
C1_TerminalKept ==
    [][\A id \in JobIds :
          /\ writes'[id] <= 1
          /\ (Registered(id) /\ Terminal(jobs[id]))
               => /\ id \notin DOMAIN jobs' \/ jobs'[id] = jobs[id]
                  /\ writes'[id] = writes[id]
          /\ (Created(id) /\ ~Registered(id)) => id \notin DOMAIN jobs']_vars

\* a completed job has been polled while the task of another job ended in error
C1_Witness ==
    \E id \in JobIds, other \in JobIds :
        /\ Registered(id) /\ jobs[id].status = "completed" /\ writes[id] = 1
        /\ req = StatusRequest(id) /\ resp.code = 200 /\ resp.hasData
        /\ other # id /\ Registered(other) /\ jobs[other].status = "error"

\* C3: an accepted upload is answered with a fresh job id whose entry is
\* pending while its task has not run, and as long as fewer than RetentionMs
\* have passed since the job was created its entry is in the registry and a
\* status poll for it is not answered 404.
C3_RetrievableInWindow ==
    [][/\ nextId' # nextId
            => /\ resp' = Accepted(nextId)
               /\ nextId \notin DOMAIN jobs
               /\ nextId \in DOMAIN jobs' /\ jobs'[nextId] = PendingJob
               /\ task'[nextId] = "queued"
       /\ \A id \in JobIds :
            (id < nextId' /\ age'[id] < RetentionMs)
              => /\ id \in DOMAIN jobs'
                 /\ (task'[id] = "queued" => jobs'[id] = PendingJob)
                 /\ (req' = StatusRequest(id) => resp'.code # 404)]_vars

\* a job whose task has ended and whose timer runs is polled within the window
C3_Witness ==
    \E id \in JobIds :
        /\ Created(id) /\ age[id] > 0 /\ age[id] < RetentionMs
        /\ task[id] = "done" /\ id \in DOMAIN timer /\ timer[id] < RetentionMs
        /\ req = StatusRequest(id) /\ resp.code = 200

\* C4: every job in the registry is eventually removed from it, also one
\* that is never polled and one whose decoder or oracle call never settles.
C4_EventuallyEvicted ==
    \A id \in JobIds : [](Registered(id) => <>(~Registered(id)))

\* C5: a job whose decoded document has no text lines is in error with the
\* reason NoTextMsg as long as it is registered, its task has ended, and the
\* oracle was not called for it.
C5_NoTextIsError ==
    \A id \in JobIds :
        (doc[id].decoded /\ doc[id].lines = <<>>)
          => /\ task[id] = "done"
             /\ ~sent[id].called
             /\ reply[id].got = "none"
             /\ writes[id] = 1
             /\ Registered(id) => jobs[id] = ErrorJob(JStr(NoTextMsg))

\* the error of a job without text has been served to a poll
C5_Witness ==
    \E id \in JobIds :
        /\ doc[id].decoded /\ doc[id].lines = <<>>
        /\ req = StatusRequest(id)
        /\ resp.status = JStr("error") /\ resp.error = JStr(NoTextMsg)

\* the media types that say PDF
PdfTypes == {PdfType, XPdfType}

NotPdf(r) == r.op = "extract" /\ (~r.file \/ r.mimetype \notin PdfTypes)

-----------------------------------------------------------------------------
(* Properties of the row filter *)

\* no line up to position i matches a stop marker
BeforeStop(lines, i) == \A j \in 1 .. i : ~IsStopLine(lines[j])

HeaderCount(lines) == Cardinality({i \in DOMAIN lines : IsHeaderLine(lines[i])})

\* no line is a header line and no line before the first stop marker can
\* open a row
SelectsNothing(lines) ==
    \A i \in DOMAIN lines :
        /\ ~IsHeaderLine(lines[i])
        /\ BeforeStop(lines, i)
             => ~(AllDigits(lines[i]) \/ DigitsThenSpace(lines[i]) \/ SeemsData(lines[i]))

\* C2, as claimed: no line at or after the first stop-marker line is in, or
\* joined into, an entry of the filtered output handed to the oracle.
C2_NothingFromStopOn ==
    \A id \in JobIds :
        sent[id].called =>
            \A g \in DOMAIN sent[id].from :
                \A k \in DOMAIN sent[id].from[g] :
                    BeforeStop(doc[id].lines, sent[id].from[g][k])

\* C2, amended: no line at or after the first stop-marker line is joined into
\* a data row of the filtered output; such a line is in the output only as
\* one of the header lines put in front of it, or when nothing was selected
\* and the whole line list is handed over.
C2_NoRowFromStopOn ==
    \A id \in JobIds :
        sent[id].called =>
            \/ SelectsNothing(doc[id].lines) /\ sent[id].lines = doc[id].lines
            \/ \A g \in DOMAIN sent[id].from :
                 IF g <= HeaderCount(doc[id].lines)
                 THEN /\ Len(sent[id].from[g]) = 1
                      /\ IsHeaderLine(doc[id].lines[sent[id].from[g][1]])
                 ELSE \A k \in DOMAIN sent[id].from[g] :
                         BeforeStop(doc[id].lines, sent[id].from[g][k])

\* a document with a row before a stop marker and a header line after it
C2_Witness ==
    \E id \in JobIds :
        /\ sent[id].called
        /\ doc[id].lines = <<LineRow, LineStop, LineName>>
        /\ Len(sent[id].lines) = 3
        /\ sent[id].lines[1] = LineName /\ sent[id].lines[2] = LineRow

\* C6: for a document that has lines, the list handed to the oracle has
\* entries and none of them is empty; when no line is a header line and no
\* line before the first stop marker opens a row, that list is the list of
\* the document's lines, in their order.
C6_FailOpen ==
    \A id \in JobIds :
        (doc[id].decoded /\ doc[id].lines # <<>>)
          => /\ sent[id].called
             /\ sent[id].lines # <<>>
             /\ \A g \in DOMAIN sent[id].lines : sent[id].lines[g] # <<>>
             /\ SelectsNothing(doc[id].lines) => sent[id].lines = doc[id].lines

\* a document of which nothing is selected, with a stop marker in it
C6_Witness ==
    \E id \in JobIds :
        /\ doc[id].lines = <<LinePlain, LineStop, LineComma>>
        /\ SelectsNothing(doc[id].lines)
        /\ sent[id].called /\ sent[id].lines = doc[id].lines
        /\ reply[id].got = "content"

-----------------------------------------------------------------------------
(* Properties of the row normalizer *)

\* the oracle delivered a JSON object whose member rows is an array
HasRowsArray(id) ==
    /\ reply[id].got = "content"
    /\ reply[id].content.ok
    /\ reply[id].content.top = "object"
    /\ reply[id].content.rowsT = "array"

\* the rows the oracle delivered
Returned(id) == reply[id].content.elems

\* an object all of whose schema fields are a string, null, or not there
ValidRow(row) ==
    row.t = "object" /\ \A k \in SchemaKeys : row.f[k][1] \in {"string", "null", "absent"}

\* C7: when the oracle delivers a rows array, the job is completed and not in
\* error, whatever the rows are; every row of data is an object with no key
\* outside the nine schema fields and with every field a string, null or not
\* there; and data has no more rows than the reply has valid rows, so that a
\* row with a field of another type leaves nothing in data.
C7_InvalidRowDropped ==
    \A id \in JobIds :
        HasRowsArray(id) =>
            /\ Registered(id) /\ jobs[id].status = "completed"
            /\ \A r \in DOMAIN jobs[id].data :
                 /\ jobs[id].data[r].t = "object"
                 /\ \A k \in OtherKeys : jobs[id].data[r].f[k] = Absent
                 /\ \A k \in SchemaKeys :
                      jobs[id].data[r].f[k][1] \in {"string", "null", "absent"}
            /\ Len(jobs[id].data)
                 <= Cardinality({i \in DOMAIN Returned(id) : ValidRow(Returned(id)[i])})

\* the reply {"rows": [{Name: "Doe, Jane", MemberID: 123}, a valid row]}
C7_Witness ==
    \E id \in JobIds :
        /\ HasRowsArray(id)
        /\ Returned(id) = <<Row(JStr("Doe, Jane"), JNum("123"), Absent), GoodRow>>
        /\ jobs[id] = CompletedJob(<<GoodRow>>)

\* C8, as claimed: every row of a completed job has all nine schema fields,
\* each a string or null.
C8_AbsentBecomesNull ==
    \A id \in JobIds :
        (Registered(id) /\ jobs[id].status = "completed")
          => \A r \in DOMAIN jobs[id].data :
               \A k \in SchemaKeys : jobs[id].data[r].f[k][1] \in {"string", "null"}

\* C8, amended: every row of a completed job is a valid row of the reply with
\* its schema fields as the oracle gave them: a field the oracle left out is
\* left out of the stored row too (it is not set to null), and a row that is
\* valid and has a non-empty string field is stored.
C8_AbsentStaysAbsent ==
    \A id \in JobIds :
        (HasRowsArray(id) /\ Registered(id) /\ jobs[id].status = "completed")
          => /\ \A r \in DOMAIN jobs[id].data :
                  \E i \in DOMAIN Returned(id) :
                      /\ ValidRow(Returned(id)[i])
                      /\ \A k \in SchemaKeys :
                           jobs[id].data[r].f[k] = Returned(id)[i].f[k]
             /\ \A i \in DOMAIN Returned(id) :
                  (/\ ValidRow(Returned(id)[i])
                   /\ \E k \in SchemaKeys :
                        /\ Returned(id)[i].f[k][1] = "string"
                        /\ Returned(id)[i].f[k][2] # "")
                    => \E r \in DOMAIN jobs[id].data :
                         \A k \in SchemaKeys :
                             jobs[id].data[r].f[k] = Returned(id)[i].f[k]

\* one valid row without the bill dates was returned and is stored, and the
\* bill dates are not in the stored row
C8_Witness ==
    \E id \in JobIds :
        /\ HasRowsArray(id) /\ Returned(id) = <<GoodRow>>
        /\ Registered(id) /\ jobs[id].status = "completed"
        /\ Len(jobs[id].data) = 1
        /\ jobs[id].data[1].f["Name"] = JStr("Doe, Jane")
        /\ jobs[id].data[1].f["T1023BillDate"] = Absent
        /\ jobs[id].data[1].f["H0044BillDate"] = Absent

\* C9: a job whose oracle call failed, or whose reply does not parse, or
\* parses to a value without a member rows, or with rows that is no array,
\* is in error and has never been completed.
C9_BadShapeIsError ==
    \A id \in JobIds :
        (reply[id].got = "rejected" \/ (reply[id].got = "content" /\ ~HasRowsArray(id)))
          => /\ Registered(id)
             /\ jobs[id].status = "error"
             /\ jobs[id].error[1] = "string"
             /\ jobs[id].data = <<>>
             /\ writes[id] = 1

\* the reply is a JSON object without rows, and the job is in error
C9_Witness ==
    \E id \in JobIds :
        /\ reply[id].got = "content"
        /\ reply[id].content = Content(TRUE, "object", "absent", <<>>)
        /\ Registered(id)
        /\ jobs[id] = ErrorJob(JStr(InvalidStructureMsg))

-----------------------------------------------------------------------------
(* Properties of GET /status *)

\* the step is a status poll for id that was answered
Polled(id) == req' = StatusRequest(id) /\ (req' # req \/ resp' # resp)

\* C11: a status poll changes nothing but the request and the response, and
\* its answer is a function of the registry: 404 exactly when the id has no
\* entry, {status: 'pending'} exactly when the entry is pending, {status:
\* true, data} with the entry's data exactly when it is completed, and
\* {status: 'error', error} with a string error exactly when it is in error.
C11_StatusReadsRegistry ==
    [][\A id \in JobIds :
          Polled(id) =>
            /\ UNCHANGED <<jobs, nextId, task, doc, sent, reply, timer, age, since, writes>>
            /\ resp'.code = 404 <=> ~Registered(id)
            /\ resp'.status = JStr("pending")
                 <=> (Registered(id) /\ jobs[id].status = "pending")
            /\ (resp'.status = JBool("true") /\ resp'.hasData)
                 <=> (Registered(id) /\ jobs[id].status = "completed")
            /\ (Registered(id) /\ jobs[id].status = "completed")
                 => resp'.data = jobs[id].data
            /\ (resp'.status = JStr("error") /\ resp'.error[1] = "string")
                 <=> (Registered(id) /\ jobs[id].status = "error")]_vars

-----------------------------------------------------------------------------
(* Properties of the lifecycle *)

IsPending(id) == Registered(id) /\ jobs[id].status = "pending"

\* C12: every job created by POST /extract eventually leaves 'pending': its
\* entry eventually is completed or in error, also when the decoder or the
\* oracle call never delivers a result or an error.
C12_EventuallyTerminal ==
    \A id \in JobIds : IsPending(id) ~> (Registered(id) /\ Terminal(jobs[id]))

-----------------------------------------------------------------------------
(* Properties of the empty-row filter *)

\* every field of the row is null or not there
AllNullOrAbsent(row) == \A k \in Keys : row.f[k][1] \in {"null", "absent", "undefined"}

\* the validated rows, in their order, without those with no field but null
\* or absent ones
NonEmptyRows(rows) ==
    SelectSeq([i \in DOMAIN rows |-> NormalizeRow(rows[i])],
              LAMBDA row : ~AllNullOrAbsent(row))

\* C13: the data of a completed job is the sequence of the validated rows of
\* the reply, in the reply's order, without exactly the rows all of whose
\* fields are null or absent: a row with a field that is not null, the empty
\* string included, is kept.
C13_OnlyEmptyRowsDropped ==
    \A id \in JobIds :
        (HasRowsArray(id) /\ Registered(id) /\ jobs[id].status = "completed")
          => jobs[id].data = NonEmptyRows(Returned(id))

-----------------------------------------------------------------------------
(* Properties of the header step *)

\* the line can open a row of the filter
OpensRow(line) == AllDigits(line) \/ DigitsThenSpace(line) \/ SeemsData(line)

\* C14: every line of the document whose upper-cased form contains 'NAME',
\* 'T1023' or 'H0044' is an entry of the list handed to the oracle, wherever
\* it stands in the document and whether or not it can open a row; these
\* entries are the first ones of the list, and every entry after them is a
\* row accumulated by the filter.
C14_HeadersFirst ==
    \A id \in JobIds :
        sent[id].called =>
            LET lines == doc[id].lines
                from == sent[id].from
                n == HeaderCount(lines)
            IN  /\ Len(from) >= n
                /\ \A i \in DOMAIN lines :
                     IsHeaderLine(lines[i])
                       => \E g \in 1 .. n : from[g] = <<i>> /\ sent[id].lines[g] = lines[i]
                /\ \A g \in 1 .. n :
                     Len(from[g]) = 1 /\ IsHeaderLine(lines[from[g][1]])
                /\ n > 0 => \A g \in (n + 1) .. Len(from) :
                              /\ OpensRow(lines[from[g][1]])
                              /\ BeforeStop(lines, from[g][1])

\* a header line that opens no row stands between a skipped line and a row
C14_Witness ==
    \E id \in JobIds :
        /\ sent[id].called
        /\ doc[id].lines = <<LinePlain, LineName, LineRow>>
        /\ ~OpensRow(LineName)
        /\ sent[id].lines = <<LineName, LineRow>>

-----------------------------------------------------------------------------
(* Properties of the eviction timer *)

Armed(id) == id \in DOMAIN timer

\* C15: an entry is never removed while it is pending.  The eviction timer
\* of a job id is armed once, in the step that writes the job's terminal
\* state, with the whole retention window, and is never armed anew; an entry
\* is removed only when it is terminal and RetentionMs have passed since its
\* terminal write; and until RetentionMs have passed since that write the
\* entry is there, terminal, and a poll for it is answered with the result.
C15_EvictedAfterWindow ==
    [][\A id \in JobIds :
          /\ IsPending(id) => id \in DOMAIN jobs'
          /\ (~Armed(id) /\ id \in DOMAIN timer')
               => /\ writes[id] = 0 /\ writes'[id] = 1
                  /\ id \in DOMAIN jobs' /\ Terminal(jobs'[id])
                  /\ timer'[id] = RetentionMs
                  /\ since'[id] = 0
          /\ (Armed(id) /\ id \in DOMAIN timer') => timer'[id] <= timer[id]
          /\ (Registered(id) /\ id \notin DOMAIN jobs')
               => /\ Terminal(jobs[id])
                  /\ since[id] >= RetentionMs
          /\ (writes'[id] = 1 /\ since'[id] < RetentionMs)
               => /\ id \in DOMAIN jobs' /\ Terminal(jobs'[id])
                  /\ Polled(id) => /\ resp'.code = 200
                                   /\ resp'.status \in {JBool("true"), JStr("error")}]_vars

\* the result of a job was read by a poll, and the entry has been removed
\* after the window
C15_Witness ==
    \E id \in JobIds :
        /\ Created(id) /\ ~Registered(id) /\ ~Armed(id)
        /\ writes[id] = 1 /\ since[id] = RetentionMs
        /\ req = StatusRequest(id) /\ resp.code = 200 /\ resp.hasData

-----------------------------------------------------------------------------
(* Properties of concurrent jobs *)

\* the terminal states a job can have, given its own document and its own
\* oracle reply
OwnOutcomes(d, r) ==
    IF d.decoded /\ d.lines = <<>> THEN {ErrorJob(JStr(NoTextMsg))}
    ELSE IF r.got = "content"
    THEN {IF ParseReply(r.content).threw
          THEN ErrorJob(JStr(ParseReply(r.content).message))
          ELSE CompletedJob(Normalized(ParseReply(r.content).rows))}
    ELSE IF r.got = "rejected" THEN {ErrorJob(e) : e \in OracleErrors}
    ELSE IF ~d.decoded THEN {ErrorJob(e) : e \in DecoderErrors}
    ELSE {}

\* C16: with several jobs in progress, the registry entry of a job id is
\* written or deleted only by a step of that id's own request, task or timer,
\* and such a step leaves the document, the prompt, the reply, the timer and
\* the entry of every other job as they are; the terminal state of a job is
\* written once, by its own task, and it is one that its own document and
\* its own oracle reply give, whatever the other jobs did in between.
C16_JobsIsolated ==
    [][\A id \in JobIds :
          LET ownStep == \/ task'[id] # task[id]
                         \/ Armed(id) /\ id \notin DOMAIN timer'
          IN  /\ (Registered(id) # (id \in DOMAIN jobs'))
                   => ownStep
              /\ (Registered(id) /\ id \in DOMAIN jobs' /\ jobs'[id] # jobs[id])
                   => ownStep
              /\ ownStep
                   => \A other \in JobIds \ {id} :
                        /\ Registered(other) = (other \in DOMAIN jobs')
                        /\ Registered(other) => jobs'[other] = jobs[other]
                        /\ Armed(other) = (other \in DOMAIN timer')
                        /\ Armed(other) => timer'[other] = timer[other]
                        /\ UNCHANGED <<task[other], doc[other], sent[other],
                                       reply[other], writes[other]>>
              /\ writes'[id] # writes[id]
                   => /\ writes[id] = 0 /\ writes'[id] = 1
                      /\ task[id] # "done" /\ task'[id] = "done"
              /\ id \in DOMAIN jobs'
                   => IF writes'[id] = 1
                      THEN jobs'[id] \in OwnOutcomes(doc'[id], reply'[id])
                      ELSE jobs'[id] = PendingJob]_vars

\* two jobs in the registry at once: the later one ended in error for its
\* empty document before the earlier one was completed from its reply
C16_Witness ==
    /\ Registered(0) /\ Registered(1)
    /\ writes[0] = 1 /\ writes[1] = 1 /\ since[1] > since[0]
    /\ doc[1].lines = <<>> /\ jobs[1] = ErrorJob(JStr(NoTextMsg))
    /\ doc[0].lines = SampleDoc /\ jobs[0] = CompletedJob(<<GoodRow>>)

====
